---- MODULE Spec2Model ----
(***************************************************************************)
(* A model of gs_quant/api/risk.py: the channel primitives of RiskApi       *)
(* (__handle_queue_update, drain_queue, enqueue, shutdown_queue_listener), *)
(* the dispatch worker and the orchestrator of RiskApi.run, and the        *)
(* result flattener RiskApi._handle_results.                                *)
(***************************************************************************)
EXTENDS Integers, Sequences, FiniteSets, TLC

\* ------------------------------------------------------------------ bounds
\* Longest request list handed to run.
MaxRequests == 3
\* Largest max_concurrent handed to run.
MaxConcurrent == 2
\* Largest extent of a backend result along each of its three axes.
MaxDim == 2
\* Most payload items a producer passes to enqueue on the single channel.
MaxItems == 3
\* Most shutdown signals placed on the single channel.
MaxSignals == 2
\* Most batch calls of one run that the backend fails.
MaxFailures == 1

Min(a, b) == IF a <= b THEN a ELSE b

\* ------------------------------------------------------------ data values
AsOf1 == [pricing_date |-> "d1", market |-> "mkt"]
AsOf2 == [pricing_date |-> "d2", market |-> "mkt"]
Pos(i) == [instrument |-> i]

\* A RiskRequest, reduced to the fields risk.py reads.
Request(ms, ps, ds, params) ==
    [measures |-> ms, positions |-> ps, pricing_and_market_data_as_of |-> ds,
     parameters |-> params, scenario |-> "sc"]

ReqA == Request(<<"m1">>, <<Pos("i1")>>, <<AsOf1>>, "pa")
\* shares the (m1, i1, d1) key with ReqA
ReqB == Request(<<"m1", "m2">>, <<Pos("i1")>>, <<AsOf1>>, "pa")
\* the same instrument in two positions
ReqC == Request(<<"m2">>, <<Pos("i2"), Pos("i2")>>, <<AsOf1>>, "pa")
\* shares no key with the others
ReqD == Request(<<"m1">>, <<Pos("i2")>>, <<AsOf1, AsOf2>>, "pb")
\* the same measure twice
ReqE == Request(<<"m1", "m1">>, <<Pos("i1")>>, <<AsOf1, AsOf2>>, "pb")

\* Requests handed to run, and requests handed to _handle_results alone.
RunRequests == {ReqA, ReqD}
FlatRequests == {ReqA, ReqB, ReqC, ReqD, ReqE}

\* Messages of the exceptions a backend batch call raises.
Messages == {"e1", "e2"}
\* Message of the exception a decoder raises.
DecoderMessage == "decode failed"

\* A result is an exception or a value (measures x positions x as-of dates).
Exc(msg) == [kind |-> "exc", msg |-> msg]
Value(data) == [kind |-> "value", data |-> data]
\* The acknowledgement calc returns for a request that does not wait.
Ack == [kind |-> "ack"]

\* The backend tags the cells of measure m1 "Float", all others "Blob".
TypeAt(request, mi) ==
    IF mi <= Len(request.measures) /\ request.measures[mi] # "m1"
    THEN "Blob" ELSE "Float"

\* A backend value of extents a x b x c computed for request; every raw cell
\* carries its '$type' and a payload naming the request and the cell's place.
ShapedResult(request, a, b, c) ==
    [mi \in 1..a |-> [pi \in 1..b |-> [di \in 1..c |->
        [type |-> TypeAt(request, mi), at |-> <<mi, pi, di>>, from |-> request]]]]

NumMeasures(request) == Len(request.measures)
NumPositions(request) == Len(request.positions)
NumAsOf(request) == Len(request.pricing_and_market_data_as_of)
NumTriples(request) == NumMeasures(request) * NumPositions(request) * NumAsOf(request)

\* calc: the well-shaped value of the backend for one request.
calc(request) ==
    Value(ShapedResult(request, NumMeasures(request), NumPositions(request),
                       NumAsOf(request)))

\* --------------------------------------------------------- _handle_results
\* The types result_handlers has a handler for.
HandlerTypes == {"Error", "Float"}

RiskKey(request, as_of, risk_measure) ==
    [provider |-> "RiskApi", date |-> as_of.pricing_date, market |-> as_of.market,
     params |-> request.parameters, scenario |-> request.scenario,
     measure |-> risk_measure]

ErrorValue(risk_key, msg) == [kind |-> "ErrorValue", key |-> risk_key, error |-> msg]

\* The registered handler applied to a raw cell: the 'Error' handler wraps
\* the errorString, any other returns a decoded value.
Decoded(date_result, risk_key, instrument) ==
    IF date_result.type = "Error"
    THEN ErrorValue(risk_key, date_result.errorString)
    ELSE [kind |-> "decoded", raw |-> date_result, key |-> risk_key,
          instrument |-> instrument]

\* (mutant) a handler that raises leaves the raw cell in the map.
CellOf_unguarded(date_result, risk_key, instrument, bad) ==
    IF date_result.type \notin HandlerTypes \/ date_result \in bad THEN date_result
    ELSE Decoded(date_result, risk_key, instrument)

\* Lines 223 and 233-237: look the handler up by '$type'; without one the raw
\* cell passes through; a handler that raises (the cells of bad) leaves an
\* ErrorValue with the exception's message.
CellOf(date_result, risk_key, instrument, bad) ==
    IF date_result.type \notin HandlerTypes THEN date_result
    ELSE IF date_result \in bad THEN ErrorValue(risk_key, DecoderMessage)
    ELSE Decoded(date_result, risk_key, instrument)

\* Lines 214-218: an exception becomes a full cube of 'Error' raw cells.
ErrorCube(request, msg) ==
    [mi \in 1..NumMeasures(request) |-> [pi \in 1..NumPositions(request) |->
        [di \in 1..NumAsOf(request) |-> [type |-> "Error", errorString |-> msg]]]]

Cube(request, results) ==
    IF results.kind = "exc" THEN ErrorCube(request, results.msg) ELSE results.data

\* The index triples the three nested zips of lines 220-222 visit: each zip
\* stops at the shorter of its two sequences.
ZipTriples(request, cube) ==
    {t \in (1..Min(NumMeasures(request), Len(cube)))
            \X (1..NumPositions(request)) \X (1..NumAsOf(request)) :
        /\ t[2] <= Len(cube[t[1]])
        /\ t[3] <= Len(cube[t[1]][t[2]])}

\* t is visited before u by the nested loops.
Before(t, u) ==
    \/ t[1] < u[1]
    \/ t[1] = u[1] /\ t[2] < u[2]
    \/ t[1] = u[1] /\ t[2] = u[2] /\ t[3] < u[3]

KeyOf(request, t) ==
    <<RiskKey(request, request.pricing_and_market_data_as_of[t[3]], request.measures[t[1]]),
      request.positions[t[2]].instrument>>

\* formatted_results[key] = value  (line 239): a later write replaces.
Put(map, key, value) ==
    [k \in DOMAIN map \cup {key} |-> IF k = key THEN value ELSE map[k]]

EmptyMap == << >>

RECURSIVE FlattenFrom(_, _, _, _, _)
FlattenFrom(request, cube, bad, todo, formatted_results) ==
    IF todo = {} THEN formatted_results
    ELSE LET t == CHOOSE x \in todo : \A y \in todo \ {x} : Before(x, y)
             key == KeyOf(request, t)
             cell == CellOf(cube[t[1]][t[2]][t[3]], key[1], key[2], bad)
         IN FlattenFrom(request, cube, bad, todo \ {t},
                        Put(formatted_results, key, cell))

\* _handle_results(request, results): the flat map of one request's result.
\* It has no raising path of its own: the outcome is always a returned map.
handle_results(request, results, bad) ==
    LET cube == Cube(request, results)
    IN [raised |-> FALSE,
        map |-> FlattenFrom(request, cube, bad, ZipTriples(request, cube), EmptyMap)]

\* ------------------------------------------------------ channel primitives
\* __SHUTDOWN_SENTINEL
Shutdown == [tag |-> "shutdown"]

Payloads(items) == SelectSeq(items, LAMBDA x : x # Shutdown)

\* (mutant) a sentinel met in the loop ends the drain and what is behind
\* it on the queue is dropped.
get_nowait_step_stopping(q, shutdown, ret) ==
    IF Head(q) = Shutdown THEN [shutdown |-> TRUE, ret |-> ret, rest |-> << >>]
    ELSE [shutdown |-> shutdown, ret |-> Append(ret, Head(q)), rest |-> Tail(q)]

\* (mutant) a sentinel met in the loop ends the batch: what was collected
\* is given up.
get_nowait_step_forgetting(q, shutdown, ret) ==
    IF Head(q) = Shutdown THEN [shutdown |-> TRUE, ret |-> << >>, rest |-> Tail(q)]
    ELSE [shutdown |-> shutdown, ret |-> Append(ret, Head(q)), rest |-> Tail(q)]

\* (mutant) a sentinel met in the loop is skipped without setting the flag.
get_nowait_step_unflagged(q, shutdown, ret) ==
    IF Head(q) = Shutdown THEN [shutdown |-> shutdown, ret |-> ret, rest |-> Tail(q)]
    ELSE [shutdown |-> shutdown, ret |-> Append(ret, Head(q)), rest |-> Tail(q)]

\* One pass of the while loop of __handle_queue_update (lines 61-67) on a
\* queue that holds an item: get_nowait takes the head; a sentinel sets the
\* flag, anything else is appended to ret.
get_nowait_step(q, shutdown, ret) ==
    IF Head(q) = Shutdown THEN [shutdown |-> TRUE, ret |-> ret, rest |-> Tail(q)]
    ELSE [shutdown |-> shutdown, ret |-> Append(ret, Head(q)), rest |-> Tail(q)]

\* The whole loop (lines 61-71) when nothing is put on the queue meanwhile,
\* as on a queue of the scheduler's domain, where the loop runs without
\* yielding: passes until get_nowait finds the queue empty.
RECURSIVE DrainRest(_, _, _)
DrainRest(q, shutdown, ret) ==
    IF q = << >> THEN [shutdown |-> shutdown, items |-> ret, rest |-> << >>]
    ELSE LET s == get_nowait_step(q, shutdown, ret)
         IN DrainRest(s.rest, s.shutdown, s.ret)

\* (mutant) a sentinel found first is left on the queue.
handle_first_peeking(q, first) ==
    IF first = Shutdown
    THEN [done |-> TRUE, shutdown |-> TRUE, ret |-> << >>, rest |-> <<first>> \o q]
    ELSE [done |-> FALSE, shutdown |-> FALSE, ret |-> <<first>>, rest |-> q]

\* Lines 55-59 of __handle_queue_update: q is what the queue holds behind
\* first. A sentinel first ends the call with (True, []); otherwise the
\* loop starts with ret = [first].
handle_first(q, first) ==
    IF first = Shutdown
    THEN [done |-> TRUE, shutdown |-> TRUE, ret |-> << >>, rest |-> q]
    ELSE [done |-> FALSE, shutdown |-> FALSE, ret |-> <<first>>, rest |-> q]

\* __handle_queue_update(q, first) on a queue of the scheduler's domain.
handle_queue_update(q, first) ==
    LET h == handle_first(q, first)
    IN IF h.done THEN [shutdown |-> h.shutdown, items |-> h.ret, rest |-> h.rest]
       ELSE DrainRest(h.rest, h.shutdown, h.ret)

\* drain_queue_async once q.get() has an item to return (lines 79-80): the
\* rest of the call runs in the scheduler's thread without yielding.
drain_queue_async(q) == handle_queue_update(Tail(q), Head(q))

\* q.put_nowait(item)
put_nowait(q, item) == Append(q, item)

\* loop.call_soon_threadsafe(q.put_nowait, item): the put joins the
\* scheduler's FIFO of callbacks and happens when the scheduler runs it.
call_soon_threadsafe(ready, qname, item) ==
    Append(ready, [op |-> "put", q |-> qname, item |-> item])

\* ------------------------------------------------------------- variables
VARIABLES
    raising,     \* the raw cells whose handler raises (the decoders' behaviour)
    f_pc,        \* flattener harness: "call" before, "done" after the call
    f_request,   \* its request argument
    f_results,   \* its results argument
    f_out        \* what the call returned

fvars == <<f_pc, f_request, f_results, f_out>>

VARIABLES
    c_loop,      \* single channel harness: TRUE when producers pass loop
    c_queue,     \* what the queue holds
    c_ready,     \* puts handed to the scheduler and not yet run
    c_enqueued,  \* the payload items passed to enqueue, in call order
    c_signals,   \* how many shutdown signals were placed
    c_drained,   \* the items of all drains so far, concatenated
    c_last       \* the drain under way or the last one: the queue q.get() found
                 \* and left, the items taken since, the flag and ret

cvars == <<c_loop, c_queue, c_ready, c_enqueued, c_signals, c_drained, c_last>>

VARIABLES
    all_requests,   \* the list run was called with
    max_concurrent, \* run's max_concurrent
    is_async,       \* not requests[0].wait_for_results
    progress_bar,   \* TRUE when run was given a progress_bar that is truthy
    requests,       \* the list as run_async has popped it so far
    queue,          \* the items each queue holds
    ready,          \* the scheduler's FIFO of callbacks not yet run
    getter,         \* TRUE while run_async waits in raw_results.get()
    o_pc,           \* where run_async is
    to_pop,         \* how many requests line 157 has still to pop
    chunk_size,
    received,
    results,
    progress,       \* the sum of the counts given to progress_bar.update
    w_pc,           \* where execute_requests is
    requests_chunk,
    w_drain,        \* ret and shutdown of the drain_queue call under way
    w_shutdown,     \* execute_requests' shutdown
    w_out,          \* the pairs the running enqueue call has still to push
    w_target,       \* the queue that call pushes to
    session,        \* "new" before `with session`, "held" inside, "released" after
    s_pc,           \* where the get_results task is
    s_pending,      \* the acknowledged pairs it has taken and not finished
    s_shutdown,     \* it has seen the shutdown signal on responses
    placed,         \* per queue: "open", "shut" once a shutdown signal was
                    \* placed, "late" once anything was placed after one
    batches,        \* the calls of calc_multi: chunk, outcome, pairs pushed,
                    \* and whether the drain that gave the chunk saw shutdown
    flattened,      \* the calls of _handle_results: arguments and map
    s_pushed        \* the pairs get_results pushed on raw_results

pvars == <<all_requests, max_concurrent, is_async, progress_bar, requests, queue, ready, getter,
           o_pc, to_pop, chunk_size, received, results, progress,
           w_pc, requests_chunk, w_drain, w_shutdown, w_out, w_target, session,
           s_pc, s_pending, s_shutdown, placed, batches, flattened, s_pushed>>

vars == <<raising, fvars, cvars, pvars>>

\* ------------------------------------------------- flattener in isolation
FlatShapes == (0..MaxDim) \X (0..MaxDim) \X (0..MaxDim)

FlatInputs(request) ==
    {Exc(m) : m \in Messages}
        \cup {Value(ShapedResult(request, s[1], s[2], s[3])) : s \in FlatShapes}

\* The cells a decoder may raise for: none, or one cell of the result.
BadChoices(request, result) ==
    IF result.kind = "exc" THEN {{}}
    ELSE {{}} \cup {{result.data[t[1]][t[2]][t[3]]} :
                        t \in {x \in (1..MaxDim) \X (1..MaxDim) \X (1..MaxDim) :
                                 /\ x[1] <= Len(result.data)
                                 /\ x[2] <= Len(result.data[x[1]])
                                 /\ x[3] <= Len(result.data[x[1]][x[2]])}}

FlatIdle ==
    /\ f_pc = "idle"
    /\ f_request = ReqA
    /\ f_results = Exc("e1")
    /\ f_out = [raised |-> FALSE, map |-> EmptyMap]

FlatInit ==
    /\ f_pc = "call"
    /\ f_request \in FlatRequests
    /\ f_results \in FlatInputs(f_request)
    /\ raising \in BadChoices(f_request, f_results)
    /\ f_out = [raised |-> FALSE, map |-> EmptyMap]

FlatCall ==
    /\ f_pc = "call"
    /\ f_out' = handle_results(f_request, f_results, raising)
    /\ f_pc' = "done"
    /\ UNCHANGED <<f_request, f_results, raising, cvars, pvars>>

FlatNext == FlatCall


\* --------------------------------------------------- one channel in isolation
Item(n) == [tag |-> "item", id |-> n]

NoDrain == [calls |-> 0, busy |-> FALSE, found |-> << >>, after |-> << >>,
            taken |-> << >>, shutdown |-> FALSE, items |-> << >>]

ChanIdle ==
    /\ c_loop = FALSE
    /\ c_queue = << >>
    /\ c_ready = << >>
    /\ c_enqueued = << >>
    /\ c_signals = 0
    /\ c_drained = << >>
    /\ c_last = NoDrain

ChanInit ==
    /\ c_loop \in BOOLEAN
    /\ c_queue = << >>
    /\ c_ready = << >>
    /\ c_enqueued = << >>
    /\ c_signals = 0
    /\ c_drained = << >>
    /\ c_last = NoDrain

\* enqueue(q, items, loop) (lines 87-91) on the single channel.
RECURSIVE enqueue(_, _, _)
enqueue(ch, items, loop) ==
    IF items = << >> THEN ch
    ELSE enqueue(IF loop
                 THEN [ch EXCEPT !.ready = call_soon_threadsafe(@, "ch", Head(items))]
                 ELSE [ch EXCEPT !.queue = put_nowait(@, Head(items))],
                 Tail(items), loop)

\* shutdown_queue_listener(q, loop) (lines 97-100).
shutdown_queue_listener(ch, loop) ==
    IF loop THEN [ch EXCEPT !.ready = call_soon_threadsafe(@, "ch", Shutdown)]
    ELSE [ch EXCEPT !.queue = put_nowait(@, Shutdown)]

ChanEnqueue ==
    \E n \in 1..2 :
        /\ Len(c_enqueued) + n <= MaxItems
        /\ LET items == [i \in 1..n |-> Item(Len(c_enqueued) + i)]
               ch == enqueue([queue |-> c_queue, ready |-> c_ready], items, c_loop)
           IN /\ c_queue' = ch.queue
              /\ c_ready' = ch.ready
              /\ c_enqueued' = c_enqueued \o items
        /\ UNCHANGED <<c_loop, c_signals, c_drained, c_last, raising, fvars, pvars>>

ChanSignal ==
    /\ c_signals < MaxSignals
    /\ LET ch == shutdown_queue_listener([queue |-> c_queue, ready |-> c_ready], c_loop)
       IN /\ c_queue' = ch.queue
          /\ c_ready' = ch.ready
    /\ c_signals' = c_signals + 1
    /\ UNCHANGED <<c_loop, c_enqueued, c_drained, c_last, raising, fvars, pvars>>

\* The scheduler runs the oldest callback handed to it.
ChanRunCallback ==
    /\ c_ready # << >>
    /\ c_queue' = put_nowait(c_queue, Head(c_ready).item)
    /\ c_ready' = Tail(c_ready)
    /\ UNCHANGED <<c_loop, c_enqueued, c_signals, c_drained, c_last, raising, fvars, pvars>>

\* A consumer thread calls drain_queue (line 75): q.get() blocks while the
\* queue is empty, then takes the head; lines 55-59 follow.
ChanGet ==
    /\ ~c_last.busy
    /\ c_queue # << >>
    /\ LET h == handle_first(Tail(c_queue), Head(c_queue))
       IN /\ c_queue' = h.rest
          /\ c_last' = [calls |-> c_last.calls + 1, busy |-> ~h.done, found |-> c_queue,
                        after |-> h.rest, taken |-> <<Head(c_queue)>>,
                        shutdown |-> h.shutdown, items |-> h.ret]
    /\ UNCHANGED <<c_loop, c_ready, c_enqueued, c_signals, c_drained, raising, fvars, pvars>>

\* One get_nowait of the loop (lines 61-71): it takes the head of the
\* queue as it is now, puts of other threads since q.get() included, or
\* finds the queue empty, which ends the call.
ChanGetNowait ==
    /\ c_last.busy
    /\ IF c_queue = << >>
       THEN /\ c_last' = [c_last EXCEPT !.busy = FALSE]
            /\ c_drained' = c_drained \o c_last.items
            /\ UNCHANGED c_queue
       ELSE LET s == get_nowait_step(c_queue, c_last.shutdown, c_last.items)
            IN /\ c_queue' = s.rest
               /\ c_last' = [c_last EXCEPT !.shutdown = s.shutdown, !.items = s.ret,
                                             !.taken = Append(@, Head(c_queue))]
               /\ UNCHANGED c_drained
    /\ UNCHANGED <<c_loop, c_ready, c_enqueued, c_signals, raising, fvars, pvars>>

ChanNext == ChanEnqueue \/ ChanSignal \/ ChanRunCallback \/ ChanGet \/ ChanGetNowait

\* ------------------------------------------------------------ RiskApi.run
ReqItem(request) == [tag |-> "req", req |-> request]
Pair(request, result) == [tag |-> "pair", req |-> request, res |-> result]
Wake == [op |-> "wake"]

\* A result without its data, for the records kept of calls.
Brief(result) == IF result.kind = "exc" THEN result ELSE [kind |-> result.kind]

\* The request lists run is tried with: up to MaxRequests requests, some
\* ReqA followed by none, one or two ReqD (equal neighbours, distinct
\* neighbours, both).
RequestLists ==
    {l \in {[i \in 1..k |-> ReqA] \o tail :
                <<k, tail>> \in (0..MaxRequests) \X {<< >>, <<ReqD>>, <<ReqD, ReqD>>}} :
        Len(l) \in 1..MaxRequests}

\* (mutant) responses is a queue of its own in either mode.
ResponsesQ_separate == "responses"

\* responses is raw_results itself unless the run is asynchronous (line 136).
ResponsesQ == IF is_async THEN "responses" ELSE "raw_results"

inputs == <<all_requests, max_concurrent, is_async, progress_bar>>
others == <<raising, fvars, cvars>>

\* No drain_queue call of the worker is under way.
NoRet == [ret |-> << >>, shutdown |-> FALSE]

PipeIdle ==
    /\ all_requests = << >>
    /\ max_concurrent = 1
    /\ is_async = FALSE
    /\ progress_bar = FALSE
    /\ requests = << >>
    /\ queue = [q \in {"outstanding_requests", "responses", "raw_results"} |-> << >>]
    /\ ready = << >>
    /\ getter = FALSE
    /\ o_pc = "idle"
    /\ to_pop = 0
    /\ chunk_size = 0
    /\ received = 0
    /\ results = EmptyMap
    /\ progress = 0
    /\ w_pc = "idle"
    /\ requests_chunk = << >>
    /\ w_drain = NoRet
    /\ w_shutdown = FALSE
    /\ w_out = << >>
    /\ w_target = "raw_results"
    /\ session = "released"
    /\ s_pc = "none"
    /\ s_pending = << >>
    /\ s_shutdown = FALSE
    /\ placed = [q \in {"outstanding_requests", "responses", "raw_results"} |-> "open"]
    /\ batches = << >>
    /\ flattened = << >>
    /\ s_pushed = << >>

\* The message of the exception a failing batch call of a run raises.
RunMessages == {"e1"}

\* The state in which run_async enters its loop (lines 133-152): the worker
\* thread was started (line 141) and has not yet entered `with session`, the
\* subscriber task exists if async.
PipeInit ==
    /\ all_requests \in RequestLists
    /\ max_concurrent \in 1..MaxConcurrent
    /\ is_async \in BOOLEAN
    /\ progress_bar \in BOOLEAN
    /\ raising = {}
    /\ requests = all_requests
    /\ queue = [q \in {"outstanding_requests", "responses", "raw_results"} |-> << >>]
    /\ ready = << >>
    /\ getter = FALSE
    /\ o_pc = "loop"
    /\ to_pop = 0
    /\ chunk_size = Min(max_concurrent, Len(all_requests))
    /\ received = 0
    /\ results = EmptyMap
    /\ progress = 0
    /\ w_pc = "start"
    /\ requests_chunk = << >>
    /\ w_drain = NoRet
    /\ w_shutdown = FALSE
    /\ w_out = << >>
    /\ w_target = "raw_results"
    /\ session = "new"
    /\ s_pc = IF is_async THEN "run" ELSE "none"
    /\ s_pending = << >>
    /\ s_shutdown = FALSE
    /\ placed = [q \in {"outstanding_requests", "responses", "raw_results"} |-> "open"]
    /\ batches = << >>
    /\ flattened = << >>
    /\ s_pushed = << >>

expected == Len(all_requests)

\* What placing item on a queue does to the record kept of that queue.
Placed(state, item) ==
    IF state = "open" THEN (IF item = Shutdown THEN "shut" ELSE "open") ELSE "late"

\* asyncio.run has returned: the loop is closed, call_soon_threadsafe raises.
LoopClosed == o_pc = "done"

\* (mutant) the scheduler only runs while run_async waits for results, not
\* while it waits for the subscriber task.
SchedulerFree_waiting_only == o_pc = "waiting"

\* run_async is suspended, so the scheduler may run callbacks and tasks.
SchedulerFree == o_pc = "waiting" \/ (o_pc = "join" /\ is_async)

\* ---- the orchestrator, run_async ----------------------------------------
\* (mutant) admit all that is left, whatever has completed.
next_chunk_size_all(completed, remaining) == Len(remaining)

\* (mutant) admit as many as completed, whatever is left.
next_chunk_size_completed(completed, remaining) == Len(completed)

\* Line 169.
next_chunk_size(completed, remaining) == Min(Len(completed), Len(remaining))

\* (mutant) the map is replaced instead of updated.
Update_replacing(map, results_by_key) == results_by_key

\* Line 178: results.update(results_by_key).
Update(map, results_by_key) ==
    [k \in DOMAIN map \cup DOMAIN results_by_key |->
        IF k \in DOMAIN results_by_key THEN results_by_key[k] ELSE map[k]]

\* Lines 172-178 over the completed pairs, in order; progress_bar.update is
\* called only when progress_bar is truthy (line 175).
RECURSIVE HandleCompleted(_, _, _)
HandleCompleted(completed, acc, bad) ==
    IF completed = << >> THEN acc
    ELSE LET pair == Head(completed)
             results_by_key == handle_results(pair.req, pair.res, bad).map
         IN HandleCompleted(Tail(completed),
                [received |-> acc.received + 1,
                 results |-> Update(acc.results, results_by_key),
                 progress |-> IF progress_bar
                              THEN acc.progress + Cardinality(DOMAIN results_by_key)
                              ELSE acc.progress,
                 flattened |-> Append(acc.flattened,
                     [request |-> pair.req, results |-> Brief(pair.res),
                      cells |-> results_by_key])],
                bad)

\* Lines 163-178 from the moment raw_results holds an item: drain it; on
\* shutdown break out of the loop, else set chunk_size and handle the pairs.
DrainAndHandle ==
    LET r == drain_queue_async(queue["raw_results"])
        acc == HandleCompleted(r.items,
                   [received |-> received, results |-> results,
                    progress |-> progress, flattened |-> flattened], raising)
    IN /\ queue' = [queue EXCEPT !["raw_results"] = r.rest]
       /\ IF r.shutdown
          THEN /\ o_pc' = "join"
               /\ UNCHANGED <<chunk_size, received, results, progress, flattened>>
          ELSE /\ o_pc' = "loop"
               /\ chunk_size' = next_chunk_size(r.items, requests)
               /\ received' = acc.received
               /\ results' = acc.results
               /\ progress' = acc.progress
               /\ flattened' = acc.flattened

\* Lines 154-155: the loop test and the test for requests left to submit.
OrchLoop ==
    /\ o_pc = "loop"
    /\ IF received < expected
       THEN IF requests # << >> /\ chunk_size > 0
            THEN o_pc' = "enqueue" /\ to_pop' = chunk_size
            ELSE o_pc' = "get" /\ to_pop' = 0
       ELSE o_pc' = "join" /\ to_pop' = 0
    /\ UNCHANGED <<inputs, requests, queue, ready, getter, chunk_size, received,
                   results, progress, flattened, placed, others>>
    /\ UNCHANGED <<w_pc, requests_chunk, w_drain, w_shutdown, w_out, w_target, session, batches>>
    /\ UNCHANGED <<s_pc, s_pending, s_shutdown, s_pushed>>

\* Line 157, one item of the generator: pop the first request and hand its
\* put to the scheduler; popping an empty list raises out of run.
OrchEnqueue ==
    /\ o_pc = "enqueue"
    /\ IF requests = << >>
       THEN /\ o_pc' = "raised"
            /\ UNCHANGED <<requests, ready, placed, to_pop>>
       ELSE /\ requests' = Tail(requests)
            /\ ready' = call_soon_threadsafe(ready, "outstanding_requests",
                                             ReqItem(Head(requests)))
            /\ placed' = [placed EXCEPT !["outstanding_requests"] =
                              Placed(@, ReqItem(Head(requests)))]
            /\ to_pop' = to_pop - 1
            /\ o_pc' = IF to_pop > 1 THEN "enqueue"
                       ELSE IF Tail(requests) = << >> THEN "signal" ELSE "get"
    /\ UNCHANGED <<inputs, queue, getter, chunk_size, received, results, progress,
                   flattened, others>>
    /\ UNCHANGED <<w_pc, requests_chunk, w_drain, w_shutdown, w_out, w_target, session, batches>>
    /\ UNCHANGED <<s_pc, s_pending, s_shutdown, s_pushed>>

\* Lines 158-160: nothing is left to submit, signal shutdown to the worker.
OrchSignal ==
    /\ o_pc = "signal"
    /\ ready' = call_soon_threadsafe(ready, "outstanding_requests", Shutdown)
    /\ placed' = [placed EXCEPT !["outstanding_requests"] = Placed(@, Shutdown)]
    /\ o_pc' = "get"
    /\ UNCHANGED <<inputs, requests, queue, getter, to_pop, chunk_size, received,
                   results, progress, flattened, others>>
    /\ UNCHANGED <<w_pc, requests_chunk, w_drain, w_shutdown, w_out, w_target, session, batches>>
    /\ UNCHANGED <<s_pc, s_pending, s_shutdown, s_pushed>>

\* Line 163, entering `await raw_results.get()`: an empty queue suspends
\* run_async behind a getter; otherwise the drain goes ahead at once.
OrchGet ==
    /\ o_pc = "get"
    /\ IF queue["raw_results"] = << >>
       THEN /\ o_pc' = "waiting"
            /\ getter' = TRUE
            /\ UNCHANGED <<queue, chunk_size, received, results, progress, flattened>>
       ELSE /\ DrainAndHandle
            /\ UNCHANGED getter
    /\ UNCHANGED <<inputs, requests, ready, to_pop, placed, others>>
    /\ UNCHANGED <<w_pc, requests_chunk, w_drain, w_shutdown, w_out, w_target, session, batches>>
    /\ UNCHANGED <<s_pc, s_pending, s_shutdown, s_pushed>>

\* The scheduler runs run_async's wake-up: get() returns and lines 163-178
\* run to the next loop test.
OrchResume ==
    /\ SchedulerFree
    /\ o_pc = "waiting"
    /\ ready # << >>
    /\ Head(ready).op = "wake"
    /\ ready' = Tail(ready)
    /\ DrainAndHandle
    /\ UNCHANGED <<inputs, requests, getter, to_pop, placed, others>>
    /\ UNCHANGED <<w_pc, requests_chunk, w_drain, w_shutdown, w_out, w_target, session, batches>>
    /\ UNCHANGED <<s_pc, s_pending, s_shutdown, s_pushed>>

\* Lines 180-186: wait for the subscriber task, if any, and return results;
\* asyncio.run then closes the loop, which discards the callbacks handed to
\* the scheduler and not yet run.
OrchJoin ==
    /\ o_pc = "join"
    /\ is_async => s_pc \in {"done", "failed"}
    /\ o_pc' = "done"
    /\ ready' = << >>
    /\ UNCHANGED <<inputs, requests, queue, getter, to_pop, chunk_size, received,
                   results, progress, flattened, placed, others>>
    /\ UNCHANGED <<w_pc, requests_chunk, w_drain, w_shutdown, w_out, w_target, session, batches>>
    /\ UNCHANGED <<s_pc, s_pending, s_shutdown, s_pushed>>

\* ---- the scheduler -----------------------------------------------------
\* q.put_nowait(item) on a queue of the scheduler's domain: the item joins
\* the queue and a waiting getter of raw_results is woken through the FIFO.
PutAndWake(rdy, qname, item) ==
    /\ queue' = [queue EXCEPT ![qname] = put_nowait(@, item)]
    /\ IF qname = "raw_results" /\ getter
       THEN getter' = FALSE /\ ready' = Append(rdy, Wake)
       ELSE getter' = getter /\ ready' = rdy

\* The scheduler runs the oldest callback, a put handed over by a thread.
SchedulerPut ==
    /\ SchedulerFree
    /\ ready # << >>
    /\ Head(ready).op = "put"
    /\ PutAndWake(Tail(ready), Head(ready).q, Head(ready).item)
    /\ UNCHANGED <<inputs, requests, o_pc, to_pop, chunk_size, received, results,
                   progress, flattened, placed, others>>
    /\ UNCHANGED <<w_pc, requests_chunk, w_drain, w_shutdown, w_out, w_target, session, batches>>
    /\ UNCHANGED <<s_pc, s_pending, s_shutdown, s_pushed>>

\* ---- the dispatch worker, execute_requests ----------------------------------
\* The keys of the dict calc_multi builds: each request once, in the order
\* of its first occurrence.
RECURSIVE DictKeys(_, _)
DictKeys(chunk, seen) ==
    IF chunk = << >> THEN seen
    ELSE DictKeys(Tail(chunk),
                  IF \E i \in 1..Len(seen) : seen[i] = Head(chunk)
                  THEN seen ELSE Append(seen, Head(chunk)))

\* calc_multi(requests_chunk).items() (lines 49 and 123): one pair per key.
calc_multi(chunk, async) ==
    LET keys == DictKeys(chunk, << >>)
    IN [i \in 1..Len(keys) |-> Pair(keys[i], IF async THEN Ack ELSE calc(keys[i]))]

\* (mutant) only the first request of the chunk gets the exception.
error_pairs_first(chunk, msg) == <<Pair(chunk[1], Exc(msg))>>

\* (mutant) the pairs of a failed chunk are pushed twice over.
error_pairs_twice(chunk, msg) ==
    [i \in 1..(2 * Len(chunk)) |-> Pair(chunk[((i - 1) % Len(chunk)) + 1], Exc(msg))]

\* Line 126: ((r, e) for r in requests_chunk).
error_pairs(chunk, msg) == [i \in 1..Len(chunk) |-> Pair(chunk[i], Exc(msg))]

\* Where the worker goes when a chunk is dealt with (line 115).
AfterChunk(shutdown) == IF shutdown THEN "leave" ELSE "drain"

\* Line 113: the thread enters `with session`.
WorkerEnter ==
    /\ w_pc = "start"
    /\ session' = "held"
    /\ w_pc' = "drain"
    /\ UNCHANGED <<inputs, requests, queue, ready, getter, o_pc, to_pop, chunk_size,
                   received, results, progress, flattened, placed, others>>
    /\ UNCHANGED <<requests_chunk, w_drain, w_shutdown, w_out, w_target, batches>>
    /\ UNCHANGED <<s_pc, s_pending, s_shutdown, s_pushed>>

\* Line 116, drain_queue(outstanding_requests), up to the loop: q.get()
\* (line 75) blocks while the queue is empty and then takes the head; a
\* sentinel ends the call with (True, []) (lines 55-56), anything else
\* starts ret (lines 58-59).
WorkerGet ==
    /\ w_pc = "drain"
    /\ queue["outstanding_requests"] # << >>
    /\ LET h == handle_first(Tail(queue["outstanding_requests"]),
                             Head(queue["outstanding_requests"]))
       IN /\ queue' = [queue EXCEPT !["outstanding_requests"] = h.rest]
          /\ IF h.done
             THEN /\ requests_chunk' = << >>
                  /\ w_shutdown' = h.shutdown
                  /\ w_drain' = NoRet
                  /\ w_pc' = AfterChunk(h.shutdown)
             ELSE /\ w_drain' = [ret |-> h.ret, shutdown |-> h.shutdown]
                  /\ w_pc' = "get_nowait"
                  /\ UNCHANGED <<requests_chunk, w_shutdown>>
    /\ UNCHANGED <<inputs, requests, ready, getter, o_pc, to_pop, chunk_size, received,
                   results, progress, flattened, placed, others>>
    /\ UNCHANGED <<w_out, w_target, session, batches>>
    /\ UNCHANGED <<s_pc, s_pending, s_shutdown, s_pushed>>

\* One get_nowait of the loop of lines 61-69: it takes the head of the
\* queue as it is now, with what the scheduler has put since q.get(); on
\* an empty queue the call returns (lines 68-71) and line 117 tests the
\* chunk, which holds at least the first item.
WorkerGetNowait ==
    /\ w_pc = "get_nowait"
    /\ IF queue["outstanding_requests"] = << >>
       THEN /\ requests_chunk' = [i \in 1..Len(w_drain.ret) |-> w_drain.ret[i].req]
            /\ w_shutdown' = w_drain.shutdown
            /\ w_drain' = NoRet
            /\ w_pc' = IF w_drain.ret # << >> THEN "calc" ELSE AfterChunk(w_drain.shutdown)
            /\ UNCHANGED queue
       ELSE LET s == get_nowait_step(queue["outstanding_requests"],
                                     w_drain.shutdown, w_drain.ret)
            IN /\ queue' = [queue EXCEPT !["outstanding_requests"] = s.rest]
               /\ w_drain' = [ret |-> s.ret, shutdown |-> s.shutdown]
               /\ UNCHANGED <<requests_chunk, w_shutdown, w_pc>>
    /\ UNCHANGED <<inputs, requests, ready, getter, o_pc, to_pop, chunk_size, received,
                   results, progress, flattened, placed, others>>
    /\ UNCHANGED <<w_out, w_target, session, batches>>
    /\ UNCHANGED <<s_pc, s_pending, s_shutdown, s_pushed>>

\* Line 120 returning: the pairs go to responses (line 123).
WorkerCalc ==
    /\ w_pc = "calc"
    /\ w_out' = calc_multi(requests_chunk, is_async)
    /\ w_target' = ResponsesQ
    /\ batches' = Append(batches, [chunk |-> requests_chunk, outcome |-> "ok",
                                   final |-> w_shutdown, pushed |-> << >>])
    /\ w_pc' = "enqueue"
    /\ UNCHANGED <<inputs, requests, queue, ready, getter, o_pc, to_pop, chunk_size,
                   received, results, progress, flattened, placed, others>>
    /\ UNCHANGED <<requests_chunk, w_drain, w_shutdown, session>>
    /\ UNCHANGED <<s_pc, s_pending, s_shutdown, s_pushed>>

\* (mutant) the error pairs go where the replies go.
ErrorTarget_responses == ResponsesQ

\* Line 126: the queue the error pairs are enqueued on.
ErrorTarget == "raw_results"

\* Line 120 raising: one (request, exception) pair per request of the chunk
\* goes to raw_results (lines 124-126).
WorkerCalcRaises ==
    /\ w_pc = "calc"
    /\ Cardinality({b \in 1..Len(batches) : batches[b].outcome # "ok"}) < MaxFailures
    /\ \E msg \in RunMessages :
        /\ w_out' = error_pairs(requests_chunk, msg)
        /\ batches' = Append(batches, [chunk |-> requests_chunk, outcome |-> msg,
                                       final |-> w_shutdown, pushed |-> << >>])
    /\ w_target' = ErrorTarget
    /\ w_pc' = "enqueue"
    /\ UNCHANGED <<inputs, requests, queue, ready, getter, o_pc, to_pop, chunk_size,
                   received, results, progress, flattened, placed, others>>
    /\ UNCHANGED <<requests_chunk, w_drain, w_shutdown, session>>
    /\ UNCHANGED <<s_pc, s_pending, s_shutdown, s_pushed>>

\* One item of the enqueue call of line 123 or 126. On a closed loop
\* call_soon_threadsafe raises; nothing catches it for good (the enqueue of
\* line 126 raises as well) and the exception leaves execute_requests.
WorkerEnqueue ==
    /\ w_pc = "enqueue"
    /\ IF LoopClosed
       THEN /\ w_pc' = "raised"
            /\ UNCHANGED <<ready, placed, w_out, batches>>
       ELSE /\ ready' = call_soon_threadsafe(ready, w_target, Head(w_out))
            /\ placed' = [placed EXCEPT ![w_target] = Placed(@, Head(w_out))]
            /\ w_out' = Tail(w_out)
            /\ batches' = [batches EXCEPT ![Len(batches)].pushed =
                              Append(@, [q |-> w_target, req |-> Head(w_out).req,
                                         res |-> Brief(Head(w_out).res)])]
            /\ w_pc' = IF Tail(w_out) = << >> THEN AfterChunk(w_shutdown) ELSE "enqueue"
    /\ UNCHANGED <<inputs, requests, queue, getter, o_pc, to_pop, chunk_size,
                   received, results, progress, flattened, others>>
    /\ UNCHANGED <<requests_chunk, w_drain, w_shutdown, w_target, session>>
    /\ UNCHANGED <<s_pc, s_pending, s_shutdown, s_pushed>>

\* Lines 128-130, after the loop: in async mode hand the shutdown signal
\* for responses to the scheduler (raising on a closed loop); the thread is
\* still inside `with session`.
WorkerLeave ==
    /\ w_pc = "leave"
    /\ IF ResponsesQ # "raw_results"
       THEN IF LoopClosed
            THEN w_pc' = "raised" /\ UNCHANGED <<ready, placed>>
            ELSE /\ ready' = call_soon_threadsafe(ready, "responses", Shutdown)
                 /\ placed' = [placed EXCEPT !["responses"] = Placed(@, Shutdown)]
                 /\ w_pc' = "release"
       ELSE w_pc' = "release" /\ UNCHANGED <<ready, placed>>
    /\ UNCHANGED <<inputs, requests, queue, getter, o_pc, to_pop, chunk_size,
                   received, results, progress, flattened, others>>
    /\ UNCHANGED <<requests_chunk, w_drain, w_shutdown, w_out, w_target, session, batches>>
    /\ UNCHANGED <<s_pc, s_pending, s_shutdown, s_pushed>>

\* The end of `with session` (line 113), reached by the end of the block
\* or by an exception passing through: the session is released.
WorkerRelease ==
    /\ w_pc \in {"release", "raised"}
    /\ session' = "released"
    /\ w_pc' = IF w_pc = "raised" THEN "dying" ELSE "return"
    /\ UNCHANGED <<inputs, requests, queue, ready, getter, o_pc, to_pop, chunk_size,
                   received, results, progress, flattened, placed, others>>
    /\ UNCHANGED <<requests_chunk, w_drain, w_shutdown, w_out, w_target, batches>>
    /\ UNCHANGED <<s_pc, s_pending, s_shutdown, s_pushed>>

\* execute_requests returns, or the exception leaves it: the thread ends.
WorkerEnd ==
    /\ w_pc \in {"return", "dying"}
    /\ w_pc' = IF w_pc = "dying" THEN "died" ELSE "exited"
    /\ UNCHANGED <<inputs, requests, queue, ready, getter, o_pc, to_pop, chunk_size,
                   received, results, progress, flattened, placed, others>>
    /\ UNCHANGED <<requests_chunk, w_drain, w_shutdown, w_out, w_target, session, batches>>
    /\ UNCHANGED <<s_pc, s_pending, s_shutdown, s_pushed>>

\* ---- the result subscriber, get_results (its contract) ------------------------
\* It takes what responses holds.
SubscriberDrain ==
    /\ SchedulerFree
    /\ s_pc = "run"
    /\ ~s_shutdown
    /\ queue["responses"] # << >>
    /\ LET r == drain_queue_async(queue["responses"])
       IN /\ queue' = [queue EXCEPT !["responses"] = r.rest]
          /\ s_pending' = s_pending \o r.items
          /\ s_shutdown' = r.shutdown
    /\ UNCHANGED <<inputs, requests, ready, getter, o_pc, to_pop, chunk_size, received,
                   results, progress, flattened, placed, others>>
    /\ UNCHANGED <<w_pc, requests_chunk, w_drain, w_shutdown, w_out, w_target, session, batches>>
    /\ UNCHANGED <<s_pc, s_pushed>>

\* The backend reports the oldest acknowledged request complete; the
\* finished pair is put on raw_results.
SubscriberComplete ==
    /\ SchedulerFree
    /\ s_pc = "run"
    /\ s_pending # << >>
    /\ LET pair == Pair(Head(s_pending).req, calc(Head(s_pending).req))
       IN /\ PutAndWake(ready, "raw_results", pair)
          /\ placed' = [placed EXCEPT !["raw_results"] = Placed(@, pair)]
          /\ s_pushed' = Append(s_pushed, pair.req)
          /\ s_pending' = Tail(s_pending)
    /\ UNCHANGED <<inputs, requests, o_pc, to_pop, chunk_size, received,
                   results, progress, flattened, others>>
    /\ UNCHANGED <<w_pc, requests_chunk, w_drain, w_shutdown, w_out, w_target, session, batches>>
    /\ UNCHANGED <<s_pc, s_shutdown>>

\* The subscriber fails (an error, a timeout): the failure reaches the
\* orchestrator as the shutdown signal on raw_results, and the task ends
\* (its local state goes with it).
SubscriberFail ==
    /\ SchedulerFree
    /\ s_pc = "run"
    /\ PutAndWake(ready, "raw_results", Shutdown)
    /\ placed' = [placed EXCEPT !["raw_results"] = Placed(@, Shutdown)]
    /\ s_pc' = "failed"
    /\ s_pending' = << >>
    /\ s_shutdown' = FALSE
    /\ UNCHANGED <<inputs, requests, o_pc, to_pop, chunk_size, received,
                   results, progress, flattened, others>>
    /\ UNCHANGED <<w_pc, requests_chunk, w_drain, w_shutdown, w_out, w_target, session, batches>>
    /\ UNCHANGED s_pushed

\* It saw the shutdown signal on responses and has nothing left to finish.
SubscriberFinish ==
    /\ SchedulerFree
    /\ s_pc = "run"
    /\ s_shutdown
    /\ s_pending = << >>
    /\ s_pc' = "done"
    /\ UNCHANGED <<inputs, requests, queue, ready, getter, o_pc, to_pop, chunk_size,
                   received, results, progress, flattened, placed, others>>
    /\ UNCHANGED <<w_pc, requests_chunk, w_drain, w_shutdown, w_out, w_target, session, batches>>
    /\ UNCHANGED <<s_pending, s_shutdown, s_pushed>>

Next ==
    \/ OrchLoop \/ OrchEnqueue \/ OrchSignal \/ OrchGet \/ OrchResume \/ OrchJoin
    \/ SchedulerPut
    \/ WorkerEnter \/ WorkerGet \/ WorkerGetNowait
    \/ WorkerCalc \/ WorkerCalcRaises \/ WorkerEnqueue
    \/ WorkerLeave \/ WorkerRelease \/ WorkerEnd
    \/ SubscriberDrain \/ SubscriberComplete \/ SubscriberFail \/ SubscriberFinish

\* ------------------------------------------------- claims on the flattener
\* The result is a value whose three extents are the request's.
WellShaped(request, result) ==
    /\ result.kind = "value"
    /\ Len(result.data) = NumMeasures(request)
    /\ \A mi \in 1..Len(result.data) :
        /\ Len(result.data[mi]) = NumPositions(request)
        /\ \A pi \in 1..Len(result.data[mi]) :
            Len(result.data[mi][pi]) = NumAsOf(request)

AllTriples(request) ==
    (1..NumMeasures(request)) \X (1..NumPositions(request)) \X (1..NumAsOf(request))

\* The triples of the call whose decoder raises.
RaisingTriples ==
    {t \in AllTriples(f_request) :
        LET c == f_results.data[t[1]][t[2]][t[3]]
        IN c.type \in HandlerTypes /\ c \in raising}

\* What triple t alone asks the map to hold: the error cell when its decoder
\* raised, the raw cell without a decoder, the decoder's value otherwise.
OwnCell(t) ==
    LET c == f_results.data[t[1]][t[2]][t[3]]
        key == KeyOf(f_request, t)
    IN IF t \in RaisingTriples THEN ErrorValue(key[1], DecoderMessage)
       ELSE IF c.type \in HandlerTypes THEN Decoded(c, key[1], key[2])
       ELSE c

OneDecoderRaised ==
    /\ f_pc = "done"
    /\ WellShaped(f_request, f_results)
    /\ Cardinality(RaisingTriples) = 1

FlatComplete ==
    /\ ~f_out.raised
    /\ DOMAIN f_out.map = {KeyOf(f_request, t) : t \in AllTriples(f_request)}

\* C5 as stated: when the decoder raises for exactly one triple, the map
\* holds the error cell for that triple and for every other triple the cell
\* its own decoder gave, and flattening completes for all triples.
C5_AsStated ==
    OneDecoderRaised =>
        /\ FlatComplete
        /\ \A t \in AllTriples(f_request) : f_out.map[KeyOf(f_request, t)] = OwnCell(t)

\* C5 amended: when the decoder raises for exactly one triple, flattening
\* completes, and the map holds under each key the own cell of the last
\* triple written under that key (the error cell if that is the raising
\* triple); so a triple that shares its key with no later triple has the
\* error cell if its decoder raised and its own value otherwise.
C5_LastWriteIsolated ==
    OneDecoderRaised =>
        /\ FlatComplete
        /\ \A t \in AllTriples(f_request) :
            (\A u \in AllTriples(f_request) :
                KeyOf(f_request, u) = KeyOf(f_request, t) => ~Before(t, u))
            => f_out.map[KeyOf(f_request, t)] = OwnCell(t)

\* A request of several triples with pairwise distinct keys was flattened,
\* one decoder raised, and a sibling cell holds its decoded value.
C5_Witness ==
    /\ OneDecoderRaised
    /\ f_request = ReqD
    /\ \E t \in RaisingTriples :
        f_out.map[KeyOf(f_request, t)] = ErrorValue(KeyOf(f_request, t)[1], DecoderMessage)
    /\ \E t \in AllTriples(f_request) \ RaisingTriples :
        f_out.map[KeyOf(f_request, t)].kind = "decoded"

\* C10 as stated: a value whose shape disagrees with the request's declared
\* numbers of measures, positions or as-of dates ends in a fatal error and
\* leaves no partial map.
C10_MismatchIsFatal ==
    (f_pc = "done" /\ f_results.kind = "value" /\ ~WellShaped(f_request, f_results))
        => (f_out.raised /\ f_out.map = EmptyMap)

\* --------------------------------------------------- claims on one channel
\* A drain call has returned.
Returned == c_last.calls > 0 /\ ~c_last.busy

\* C7 as stated: once a drain of the channel has returned (true, []), a
\* further drain does not block and returns (true, []) again.
C7_AsStated ==
    (Returned /\ c_last.shutdown /\ c_last.items = << >>)
        => /\ c_queue # << >>
           /\ handle_first(Tail(c_queue), Head(c_queue)).done

\* C7 amended: a drain that finds the shutdown signal first returns
\* (true, []) and takes exactly that signal off the channel, leaving what is
\* queued behind it; the signal is consumed, so a drain returns (true, [])
\* only when a shutdown signal heads the channel, and a drain of the
\* emptied channel blocks.
C7_SignalConsumed ==
    /\ (Returned /\ Head(c_last.found) = Shutdown)
        => /\ c_last.shutdown
           /\ c_last.items = << >>
           /\ c_last.taken = <<Shutdown>>
           /\ c_last.after = Tail(c_last.found)
    /\ (Returned /\ c_last.shutdown /\ c_last.items = << >>)
        => Head(c_last.found) = Shutdown /\ c_last.taken = <<Shutdown>>
    /\ (c_queue = << >> /\ ~c_last.busy) => ~ENABLED ChanGet

\* After an earlier drain had returned a payload item, a drain found the
\* shutdown signal first and returned (true, []), taking that signal only;
\* the channel is empty now, so a further drain blocks.
C7_Witness ==
    /\ Returned
    /\ c_last.calls >= 2
    /\ Len(c_drained) >= 1
    /\ Head(c_last.found) = Shutdown
    /\ c_last.shutdown
    /\ c_last.items = << >>
    /\ c_last.taken = <<Shutdown>>
    /\ c_queue = << >>
    /\ c_ready = << >>
    /\ ~ENABLED ChanGet

\* C8: the items of the successive drains, followed by those the drain
\* under way has collected, the payload items still queued and those still
\* handed to the scheduler, are the payload items passed to enqueue, in the
\* order they were passed; once the channel is empty and no drain is under
\* way the drains have returned exactly the enqueued sequence.
C8_OrderPreserved ==
    /\ c_drained \o (IF c_last.busy THEN c_last.items ELSE << >>)
            \o Payloads(c_queue) \o Payloads([i \in 1..Len(c_ready) |-> c_ready[i].item])
           = c_enqueued
    /\ (c_queue = << >> /\ c_ready = << >> /\ ~c_last.busy) => c_drained = c_enqueued

\* Pushes handed to the scheduler were drained; the last drain took an
\* item, then the shutdown signal and an item that were put while it ran.
C8_Witness ==
    /\ c_loop
    /\ Returned
    /\ Len(c_last.found) = 1
    /\ c_last.taken = <<Item(2), Shutdown, Item(3)>>
    /\ c_last.items = <<Item(2), Item(3)>>
    /\ c_last.shutdown
    /\ c_drained = c_enqueued
    /\ Len(c_enqueued) = MaxItems

\* ------------------------------------------------------ claims on the run
\* run has returned its results.
RunReturned == o_pc = "done"

\* Requests handed to the worker and not yet counted in received.
InFlight == (Len(all_requests) - Len(requests)) - received

\* C1: at every point of a run, in either mode, the in-flight count (requests
\* enqueued on outstanding_requests minus completed pairs counted in
\* received) is at most max_concurrent.
C1_InFlightBounded == InFlight <= max_concurrent

\* The window is full again after a replenishment, with more to submit.
C1_Witness ==
    /\ max_concurrent = 2
    /\ received >= 1
    /\ InFlight = max_concurrent
    /\ o_pc = "waiting"

FailedBatches == {b \in 1..Len(batches) : batches[b].outcome # "ok"}

\* Every batch call and every decoder of the run succeeded, and so did the
\* subscriber.
AllSucceeded == FailedBatches = {} /\ raising = {} /\ s_pc # "failed"

RECURSIVE SumTriples(_)
SumTriples(reqs) ==
    IF reqs = << >> THEN 0 ELSE NumTriples(Head(reqs)) + SumTriples(Tail(reqs))

KeysOfRequest(request) == {KeyOf(request, t) : t \in AllTriples(request)}

AllKeys == UNION {KeysOfRequest(all_requests[i]) : i \in 1..Len(all_requests)}

\* No two triples of the run, of one request or of two, have the same key.
KeysDistinct ==
    /\ \A i \in 1..Len(all_requests) :
        \A t, u \in AllTriples(all_requests[i]) :
            t # u => KeyOf(all_requests[i], t) # KeyOf(all_requests[i], u)
    /\ \A i, j \in 1..Len(all_requests) :
        i # j => KeysOfRequest(all_requests[i]) \cap KeysOfRequest(all_requests[j]) = {}

\* C2 as stated: after an all-succeeding run the map has as many entries as
\* the requests have (measure, position, as-of) triples, whatever the
\* requests share.
C2_AsStated ==
    (RunReturned /\ AllSucceeded) => Cardinality(DOMAIN results) = SumTriples(all_requests)

\* C2 amended: after an all-succeeding run the map has exactly one entry per
\* distinct (ResultKey, instrument) key of the requests' triples: never more
\* entries than triples, and as many when no two triples share a key.
C2_OneEntryPerKey ==
    (RunReturned /\ AllSucceeded) =>
        /\ DOMAIN results = AllKeys
        /\ Cardinality(DOMAIN results) <= SumTriples(all_requests)
        /\ KeysDistinct => Cardinality(DOMAIN results) = SumTriples(all_requests)

\* An all-succeeding run of two requests, three triples, no key shared.
C2_Witness ==
    /\ RunReturned
    /\ AllSucceeded
    /\ all_requests = <<ReqA, ReqD>>
    /\ Cardinality(DOMAIN results) = 3

IsErrorCell(cell) == "kind" \in DOMAIN cell /\ cell.kind = "ErrorValue"

\* The enqueue call for batch b has returned.
PushedAll(b) == b < Len(batches) \/ w_pc \notin {"enqueue", "raised", "dying", "died"}

\* How often request r is in a chunk whose batch call ended with outcome.
InBatches(r, outcome) ==
    Cardinality({x \in (1..Len(batches)) \X (1..MaxRequests) :
        /\ batches[x[1]].outcome = outcome
        /\ x[2] <= Len(batches[x[1]].chunk)
        /\ batches[x[1]].chunk[x[2]] = r})

\* How often _handle_results was called for request r with such a result.
Handled(r, result) ==
    Cardinality({i \in 1..Len(flattened) :
        flattened[i].request = r /\ flattened[i].results = result})

\* C3: when the batch call raises, the worker pushes for every request of the
\* chunk, in order, one (request, exception) pair with that one exception,
\* all on raw_results and none on responses; flattening such a pair gives an
\* error cell with the exception's message under every key of the request;
\* and in a run that returns with received = expected every request of a
\* failed batch was flattened so, once per occurrence.
C3_BatchFailureUniform ==
    /\ \A b \in FailedBatches :
        LET batch == batches[b]
        IN /\ Len(batch.pushed) <= Len(batch.chunk)
           /\ PushedAll(b) => Len(batch.pushed) = Len(batch.chunk)
           /\ \A i \in 1..Len(batch.pushed) :
                /\ batch.pushed[i].q = "raw_results"
                /\ batch.pushed[i].req = batch.chunk[i]
                /\ batch.pushed[i].res = Exc(batch.outcome)
    /\ \A i \in 1..Len(flattened) :
        flattened[i].results.kind = "exc" =>
            /\ DOMAIN flattened[i].cells = KeysOfRequest(flattened[i].request)
            /\ \A k \in DOMAIN flattened[i].cells :
                flattened[i].cells[k] = ErrorValue(k[1], flattened[i].results.msg)
    /\ (RunReturned /\ received = expected) =>
        \A r \in RunRequests : \A m \in RunMessages :
            Handled(r, Exc(m)) = InBatches(r, m)

\* A run returned in which a batch of two requests failed and another
\* batch succeeded.
C3_Witness ==
    /\ RunReturned
    /\ received = expected
    /\ \E b \in FailedBatches : Len(batches[b].chunk) = 2
    /\ \E b \in 1..Len(batches) : batches[b].outcome = "ok"
    /\ \E i \in 1..Len(flattened) : flattened[i].results.kind = "exc"

\* The worker thread has ended, nothing is scheduled and raw_results is
\* empty while run_async waits in raw_results.get(): nothing can wake it.
OrchestratorStuck ==
    /\ o_pc = "waiting"
    /\ w_pc \in {"exited", "died"}
    /\ ready = << >>
    /\ queue["raw_results"] = << >>

\* C4 as stated: in a synchronous run where the batch call raises for some
\* batches and succeeds for others, run_async is not left waiting on
\* raw_results with the worker gone and nothing scheduled, the run returns
\* only with received = expected, the requests of the batches that succeeded
\* were flattened to successful cells only and those of the failed batches
\* to error cells only, each once per occurrence.
C4_AsStated ==
    ~is_async =>
        /\ \A i \in 1..Len(flattened) :
            \A k \in DOMAIN flattened[i].cells :
                IsErrorCell(flattened[i].cells[k]) <=> flattened[i].results.kind = "exc"
        /\ RunReturned =>
            /\ received = expected
            /\ \A r \in RunRequests :
                /\ Handled(r, [kind |-> "value"]) = InBatches(r, "ok")
                /\ \A m \in RunMessages : Handled(r, Exc(m)) = InBatches(r, m)
        /\ (FailedBatches # {} /\ \E b \in 1..Len(batches) : batches[b].outcome = "ok")
            => ~OrchestratorStuck

\* C6 as stated: on every queue the shutdown signal is the last thing ever
\* placed: nothing is placed on a queue after a shutdown signal was.
C6_ShutdownIsLast == \A q \in DOMAIN placed : placed[q] # "late"

\* The map a run holds after flattening and merging, in order, the results
\* of the given requests.
RECURSIVE MergeOf(_, _)
MergeOf(reqs, map) ==
    IF reqs = << >> THEN map
    ELSE MergeOf(Tail(reqs),
                 Update(map, handle_results(Head(reqs), calc(Head(reqs)), raising).map))

\* C9 as stated: when the subscriber fails after pushing N finished results,
\* run returns exactly the flattened cells of those N results.
C9_ReturnsPushed ==
    (RunReturned /\ is_async /\ s_pc = "failed" /\ FailedBatches = {})
        => results = MergeOf(s_pushed, EmptyMap)

\* ------------------------------------------ claims on teardown and progress
\* C11 as stated: in synchronous mode run_async is never left blocked
\* forever draining raw_results, whatever the request list (equal requests
\* in one batch included) and whatever max_concurrent.
C11_SyncNeverBlocked == ~is_async => ~OrchestratorStuck

\* C12 as stated: whenever the loop of run_async has ended, by received =
\* expected or by the break of line 166, the shutdown signal has been placed
\* on outstanding_requests.
C12_TeardownSignalled ==
    o_pc \in {"join", "done"} => placed["outstanding_requests"] # "open"

\* The window run_async opens with (line 152).
Window == Min(max_concurrent, expected)

\* C13: right after each submission step of run_async the in-flight count is
\* min(Window, expected - received); every drain that does not report
\* shutdown sets the next admission to min(pairs just drained, requests
\* left), the next submission step pops exactly that many, and line 157
\* never pops from an empty list.
C13_WindowSteady ==
    /\ [](o_pc = "get" => InFlight = Min(Window, expected - received))
    /\ [](o_pc # "raised")
    /\ [][(o_pc \in {"get", "waiting"} /\ o_pc' = "loop")
            => chunk_size' = Min(received' - received, Len(requests))]_vars
    /\ [][(o_pc = "loop" /\ o_pc' = "enqueue")
            => to_pop' = chunk_size /\ to_pop' <= Len(requests)]_vars
    /\ [][requests' # requests
            => /\ o_pc = "enqueue" /\ to_pop >= 1 /\ requests # << >>
               /\ to_pop' = to_pop - 1 /\ requests' = Tail(requests)]_vars
    /\ [][(o_pc = "enqueue" /\ o_pc' # "enqueue") => to_pop' = 0]_vars

\* A second submission step has just ended: results were received, the
\* window of two was topped up with the last request.
C13_Witness ==
    /\ o_pc = "get"
    /\ received >= 1
    /\ requests = << >>
    /\ InFlight = Window
    /\ Window = 2

\* The requests run_async has popped and handed to enqueue, in order.
Submitted == SubSeq(all_requests, 1, expected - Len(requests))

\* The chunks of the batch calls made so far, one after the other.
RECURSIVE Dispatched(_)
Dispatched(b) == IF b = 0 THEN << >> ELSE Dispatched(b - 1) \o batches[b].chunk

\* The requests among the items of a queue, in order.
RequestsIn(items) ==
    LET reqs == SelectSeq(items, LAMBDA x : x # Shutdown)
    IN [i \in 1..Len(reqs) |-> reqs[i].req]

\* The requests whose put on outstanding_requests is scheduled and not run.
ScheduledRequests ==
    LET puts == SelectSeq(ready, LAMBDA c : c.op = "put" /\ c.q = "outstanding_requests"
                                              /\ c.item # Shutdown)
    IN [i \in 1..Len(puts) |-> puts[i].item.req]

\* The pairs a batch call gives the worker to push.
PairsDue(batch) ==
    IF batch.outcome = "ok" THEN Len(DictKeys(batch.chunk, << >>)) ELSE Len(batch.chunk)

\* C14: no request handed to the worker is lost or reordered on its way to
\* the batch call, and once the worker has left its loop (it observed
\* shutdown on outstanding_requests) every submitted request was passed to
\* calc_multi and every batch, the one drained together with the shutdown
\* signal included, has had all its pairs pushed.
C14_QueuedWorkFinished ==
    /\ Submitted = Dispatched(Len(batches))
                        \o (IF w_pc = "calc" THEN requests_chunk ELSE << >>)
                        \o RequestsIn(w_drain.ret)
                        \o RequestsIn(queue["outstanding_requests"])
                        \o ScheduledRequests
    /\ w_pc \in {"leave", "release", "return", "exited"} =>
        /\ w_shutdown
        /\ Dispatched(Len(batches)) = Submitted
        /\ \A b \in 1..Len(batches) : Len(batches[b].pushed) = PairsDue(batches[b])

\* The worker has left after a drain that returned requests together with
\* the shutdown signal; that last batch, of two requests, was dispatched
\* after an earlier one.
C14_Witness ==
    /\ w_pc = "exited"
    /\ Len(batches) = 2
    /\ batches[2].final
    /\ Len(batches[2].chunk) = 2
    /\ Len(batches[2].pushed) = 2

\* How often request r is in the list run was called with.
Occurrences(r) == Cardinality({i \in 1..Len(all_requests) : all_requests[i] = r})

\* How often _handle_results was called for request r.
HandledTimes(r) == Cardinality({i \in 1..Len(flattened) : flattened[i].request = r})

\* C15: the chunks passed to calc_multi, one after the other, are always an
\* initial part of the request list, so every request (by position) is in at
\* most one batch, failed batches included; and in a run that returns with
\* received = expected they are the whole list and every request was
\* counted in received exactly once.
C15_NoRetry ==
    /\ Len(Dispatched(Len(batches))) <= expected
    /\ Dispatched(Len(batches)) = SubSeq(all_requests, 1, Len(Dispatched(Len(batches))))
    /\ (RunReturned /\ received = expected) =>
        /\ Dispatched(Len(batches)) = all_requests
        /\ Len(flattened) = expected
        /\ \A r \in RunRequests : HandledTimes(r) = Occurrences(r)

\* A run of three requests returned complete although a batch failed.
C15_Witness ==
    /\ RunReturned
    /\ received = expected
    /\ expected = 3
    /\ FailedBatches # {}
    /\ Len(batches) >= 2

\* The acknowledgement pairs the worker has pushed on responses so far.
AcksPushed ==
    Cardinality({x \in (1..Len(batches)) \X (1..MaxRequests) :
        /\ x[2] <= Len(batches[x[1]].pushed)
        /\ batches[x[1]].pushed[x[2]].q = "responses"})

\* The shutdown signals scheduled for or lying on a queue.
SignalsOn(qname) ==
    Len(SelectSeq(queue[qname], LAMBDA x : x = Shutdown))
        + Len(SelectSeq(ready, LAMBDA c : c.op = "put" /\ c.q = qname /\ c.item = Shutdown))

\* C16: in async-submission mode the worker places the shutdown signal on
\* responses only when it has left its loop, once, and nothing follows it
\* there; a worker that ended its function has placed it, after all its
\* acknowledgement pairs. In synchronous mode no shutdown signal is ever
\* placed on raw_results, so run_async leaves its loop only with received =
\* expected, never by the break of line 166.
C16_WorkerPropagatesShutdown ==
    /\ is_async =>
        /\ placed["responses"] \in {"open", "shut"}
        /\ placed["responses"] = "shut" <=> w_pc \in {"release", "return", "exited"}
        /\ SignalsOn("responses") <= 1
        /\ w_pc = "exited" =>
            /\ w_shutdown
            /\ \A b \in 1..Len(batches) : Len(batches[b].pushed) = PairsDue(batches[b])
    /\ ~is_async =>
        /\ placed["raw_results"] = "open"
        /\ SignalsOn("raw_results") = 0
        /\ queue["responses"] = << >>
        /\ o_pc \in {"join", "done"} => received = expected

\* An asynchronous run whose worker pushed two acknowledgements and then
\* the shutdown signal on responses.
C16_Witness ==
    /\ is_async
    /\ w_pc = "exited"
    /\ placed["responses"] = "shut"
    /\ AcksPushed >= 2

\* How often request r is among the pairs of a sequence.
PairsOf(r, pairs) == Cardinality({i \in 1..Len(pairs) : pairs[i].req = r})

\* How often the subscriber has pushed a result for request r.
PushedTimes(r) == Cardinality({i \in 1..Len(s_pushed) : s_pushed[i] = r})

\* C17: in async-submission mode a raising batch call makes the worker push
\* one (request, exception) pair per request of the chunk, all of them on
\* raw_results; only acknowledgements of batches that succeeded travel on
\* responses and through the subscriber; run_async never counts a failed
\* request more than once, and has counted each exactly once when the run
\* returns with received = expected.
C17_AsyncFailureBypassesSubscriber ==
    is_async =>
        /\ \A b \in FailedBatches :
            /\ \A i \in 1..Len(batches[b].pushed) :
                /\ batches[b].pushed[i].q = "raw_results"
                /\ batches[b].pushed[i].res.kind = "exc"
            /\ PushedAll(b) => Len(batches[b].pushed) = Len(batches[b].chunk)
        /\ \A i \in 1..Len(queue["responses"]) :
            queue["responses"][i] # Shutdown => queue["responses"][i].res = Ack
        /\ \A i \in 1..Len(s_pending) : s_pending[i].res = Ack
        /\ \A r \in RunRequests :
            /\ PairsOf(r, s_pending) + PushedTimes(r) <= InBatches(r, "ok")
            /\ \A m \in RunMessages :
                /\ Handled(r, Exc(m)) <= InBatches(r, m)
                /\ (RunReturned /\ received = expected) => Handled(r, Exc(m)) = InBatches(r, m)

\* An asynchronous run returned complete: one batch failed and was counted
\* from raw_results, another went through the subscriber.
C17_Witness ==
    /\ is_async
    /\ RunReturned
    /\ received = expected
    /\ FailedBatches # {}
    /\ s_pushed # << >>
    /\ \E i \in 1..Len(flattened) : flattened[i].results.kind = "exc"

\* run_async has left its loop with every request counted and waits for the
\* subscriber task (line 181).
JoinPending == is_async /\ o_pc = "join" /\ received = expected

\* A step that brings the join nearer: the worker, a scheduled callback,
\* the subscriber keeping to its contract, or the join itself.
JoinStep ==
    \/ OrchJoin \/ SchedulerPut
    \/ WorkerEnter \/ WorkerGet \/ WorkerGetNowait \/ WorkerCalc \/ WorkerEnqueue
    \/ WorkerLeave \/ WorkerRelease \/ WorkerEnd
    \/ SubscriberDrain \/ SubscriberComplete \/ SubscriberFinish

\* C18: an asynchronous run returns only after the subscriber task has
\* ended; and while run_async waits in the final join of a complete run the
\* worker has been signalled shutdown on outstanding_requests, the worker
\* then signals responses, and the join is never stuck: some step of the
\* worker, the scheduler or the subscriber, or the join itself, can be
\* taken (every step uses up a queue item or moves a control point on, so
\* the join is reached after finitely many).
C18_JoinCompletes ==
    /\ (is_async /\ RunReturned) => s_pc \in {"done", "failed"}
    /\ JoinPending =>
        /\ requests = << >>
        /\ placed["outstanding_requests"] = "shut"
        /\ w_pc \notin {"raised", "dying", "died"}
        /\ s_pc = "done" =>
            w_pc \in {"release", "return", "exited"} /\ placed["responses"] = "shut"
        /\ ENABLED JoinStep

\* A complete asynchronous run returned after the subscriber saw the
\* worker's shutdown signal and finished.
C18_Witness ==
    /\ is_async
    /\ RunReturned
    /\ received = expected
    /\ expected = 2
    /\ s_pc = "done"
    /\ w_pc = "exited"

\* C19: every chunk the worker passes to calc_multi holds at least one
\* request and at most max_concurrent, however the puts of run_async
\* interleave with the worker's drains.
C19_BatchSize ==
    /\ \A b \in 1..Len(batches) :
        /\ Len(batches[b].chunk) >= 1
        /\ Len(batches[b].chunk) <= max_concurrent
    /\ w_pc = "calc" => Len(requests_chunk) >= 1 /\ Len(requests_chunk) <= max_concurrent
    /\ Len(w_drain.ret) + Len(RequestsIn(queue["outstanding_requests"])) <= max_concurrent

\* With a window of two the worker made a batch call with a full chunk
\* and one with a single request.
C19_Witness ==
    /\ max_concurrent = 2
    /\ \E b \in 1..Len(batches) : Len(batches[b].chunk) = 2
    /\ \E b \in 1..Len(batches) : Len(batches[b].chunk) = 1

\* What a step took off raw_results (only run_async's drain takes).
TakenOffRaw ==
    SubSeq(queue["raw_results"], 1,
           Len(queue["raw_results"]) - Len(queue["raw_results"]'))

\* The step is a drain of raw_results that took the shutdown signal.
ShutdownDrained ==
    /\ Len(queue["raw_results"]') < Len(queue["raw_results"])
    /\ \E i \in 1..Len(TakenOffRaw) : TakenOffRaw[i] = Shutdown

\* The pairs placed on raw_results or scheduled for it so far.
PairsSentRaw ==
    Len(s_pushed)
        + Cardinality({x \in (1..Len(batches)) \X (1..MaxRequests) :
            /\ x[2] <= Len(batches[x[1]].pushed)
            /\ batches[x[1]].pushed[x[2]].q = "raw_results"})

\* The pairs that wait on raw_results or for their scheduled put on it.
PairsWaitingRaw ==
    Len(Payloads(queue["raw_results"]))
        + Len(SelectSeq(ready, LAMBDA c : c.op = "put" /\ c.q = "raw_results"
                                           /\ c.item # Shutdown))

\* C20: the iteration of run_async whose drain of raw_results takes the
\* shutdown signal leaves received, the result map, the progress count and
\* the record of flattenings as they were, also when pairs came off the
\* queue with the signal, and leaves the loop; after the loop nothing more
\* is popped from requests and nothing more is counted or merged.
C20_ShutdownIterationInert ==
    /\ [][ShutdownDrained =>
            /\ received' = received
            /\ results' = results
            /\ progress' = progress
            /\ flattened' = flattened
            /\ chunk_size' = chunk_size
            /\ o_pc' = "join"]_vars
    /\ [][(o_pc = "join" \/ o_pc = "done") =>
            /\ o_pc' \in {"join", "done"}
            /\ requests' = requests
            /\ received' = received
            /\ results' = results
            /\ progress' = progress]_vars

\* run_async left its loop by the break with requests still to submit,
\* and a pair that came off raw_results with the signal was not counted
\* (the loop is still open, so no scheduled put has been discarded).
C20_Witness ==
    /\ o_pc = "join"
    /\ progress_bar
    /\ received < expected
    /\ requests # << >>
    /\ PairsSentRaw > received + PairsWaitingRaw

\* --------------------------------------------------------- specifications
InitFlat == FlatInit /\ ChanIdle /\ PipeIdle

SpecFlat == InitFlat /\ [][FlatNext]_vars

InitChan == ChanInit /\ FlatIdle /\ PipeIdle /\ raising = {}

SpecChan == InitChan /\ [][ChanNext]_vars

Init == PipeInit /\ FlatIdle /\ ChanIdle

Spec == Init /\ [][Next]_vars

====
